---- MODULE Spec2Model ----
(***************************************************************************)
(* Model of the Telegram channel-update relay worker (src/worker.js).      *)
(*                                                                         *)
(* One webhook invocation = fetch(): loadState, dispatch to one handler,   *)
(* saveState.  The handlers are pure operators over the in-memory state;   *)
(* the actions feed them inputs drawn from small sets.                     *)
(*                                                                         *)
(* Strings of the program are modelled by ASCII tokens:                    *)
(*   "updated"  the suffix of the relay text  (`${title} 💌已更新`)         *)
(*   "added" / "removed"   已加入监听列表 / 已移除监听列表                 *)
(*   "denied"              无权操作                                        *)
(*   "not-found"           频道不存在                                      *)
(*   "paused-all" / "resumed-all"   已暂停全部 / 已恢复全部                *)
(*   "paused-one" / "resumed-one"   已暂停该频道 / 已恢复该频道            *)
(* A text is a sequence of lines, a line a sequence of tokens.             *)
(***************************************************************************)
EXTENDS Integers, Sequences, FiniteSets, TLC

VARIABLES
    kv,      \* the value stored under STATE_KEY in env.STATE_KV
    now,     \* the wall clock read by Date.now()
    ticks,   \* number of clock steps taken so far
    inv,     \* concurrent webhook invocations: what each holds between load and save
    kick,    \* the /api/kick request in progress and its response
    last,    \* observation of the webhook invocation handled last (one at a time)
    life,    \* per channel: status class of the last completed membership event
    posted,  \* per channel: a post was relayed through since the last completed removal
    pair     \* the last two consecutive posts of the tracked album

vars == <<kv, now, ticks, inv, kick, last, life, posted, pair>>

(***************************************************************************)
(* Bounds of the model.                                                    *)
(***************************************************************************)
MaxTicks == 2          \* clock steps per behaviour
NumProcs == 2          \* concurrent webhook invocations

(***************************************************************************)
(* Environment bindings and the values events are drawn from.              *)
(***************************************************************************)
Undefined == "undefined"      \* a missing property / null
NaN == -1                     \* Number() of a non-numeric string

TargetId == 3                 \* env.TARGET_CHAT_ID
ChanA == 1                    \* a broadcast channel
ChanB == 2                    \* a supergroup / group
AdminIds == <<7, 8>>          \* parseAdminIds(env.ADMIN_IDS)
Outsider == 9                 \* a user id outside ADMIN_IDS

\* `${id}` for the ids of the model
IdStr(n) ==
    CASE n = 1 -> "1" [] n = 2 -> "2" [] n = 3 -> "3" [] n = 5 -> "5"
      [] n = 7 -> "7" [] n = 8 -> "8" [] n = 9 -> "9" [] OTHER -> "NaN"

\* Number(s) for the strings of the model
Number(s) ==
    CASE s = "1" -> 1 [] s = "2" -> 2 [] s = "3" -> 3 [] s = "5" -> 5
      [] s = "7" -> 7 [] s = "8" -> 8 [] s = "9" -> 9 [] OTHER -> NaN

\* 10 * 60 * 1000
DedupWindow == 600000

StartTime == DedupWindow

Gids == {"g1", "g2"}
TrackedGid == "g1"

\* chat objects carried by events
ChatsA ==
    {[id |-> ChanA, type |-> "channel", title |-> "A", username |-> Undefined],
     [id |-> ChanA, type |-> "channel", title |-> "", username |-> Undefined],
     [id |-> ChanA, type |-> "channel", title |-> Undefined, username |-> "u"]}
ChatsB == {[id |-> ChanB, type |-> "group", title |-> Undefined, username |-> Undefined]}
ChatsTarget ==
    {[id |-> TargetId, type |-> "supergroup", title |-> "T", username |-> Undefined]}
PrivateChat(u) ==
    [id |-> u, type |-> "private", title |-> Undefined, username |-> Undefined]

NoFrom == 0                   \* the event carries no `from`
Senders == {AdminIds[1], Outsider}

Statuses == {"administrator", "member", "left", "kicked", "restricted"}

\* callback.data, split at ":"
Datas ==
    {<<"toggle", "global">>, <<"toggle", "1">>, <<"toggle", "2">>,
     <<"toggle", "5">>, <<"toggle", "x">>, <<"noop">>}

\* outcome of the outbound calls of one invocation: the call number `at`
\* gets an error reply (res.ok false) or fails in transport (fetch rejects)
NoFault == [kind |-> "none", at |-> 0]
Faults ==
    {NoFault, [kind |-> "reply", at |-> 1], [kind |-> "transport", at |-> 1],
     [kind |-> "transport", at |-> 2]}

MemberUpdates ==
    [kind : {"my_chat_member"}, chat : ChatsA, status : Statuses]
    \cup [kind : {"my_chat_member"}, chat : ChatsB \cup ChatsTarget,
          status : {"administrator", "left"}]
CallbackUpdates ==
    [kind : {"callback_query"}, from : Senders, data : Datas, hasMessage : BOOLEAN]
PostUpdates ==
    [kind : {"message"}, chat : ChatsA, from : {NoFrom}, gid : {TrackedGid, Undefined}]
    \cup [kind : {"message"}, chat : ChatsB \cup ChatsTarget, from : {NoFrom},
          gid : {Undefined}]
PrivateUpdates ==
    {[kind |-> "message", chat |-> PrivateChat(u), from |-> u, gid |-> Undefined]
        : u \in Senders}
OtherUpdates == {[kind |-> "edited_message"]}

AlbumChat == [id |-> ChanA, type |-> "channel", title |-> "A", username |-> Undefined]

\* the events delivered to concurrent invocations
ConcUpdates ==
    [kind : {"my_chat_member"}, chat : {AlbumChat}, status : {"administrator", "left"}]
    \cup [kind : {"my_chat_member"}, chat : ChatsTarget, status : {"administrator"}]
    \cup [kind : {"message"}, chat : {AlbumChat}, from : {NoFrom}, gid : {TrackedGid}]
    \cup [kind : {"message"}, chat : ChatsTarget, from : {NoFrom}, gid : {Undefined}]
    \cup [kind : {"callback_query"}, from : {AdminIds[1]},
          data : {<<"toggle", "global">>, <<"toggle", "3">>}, hasMessage : {FALSE}]
ConcFaults == {NoFault, [kind |-> "transport", at |-> 1]}

\* the events of an album history: posts of two albums on ChanA, the toggles and
\* the membership changes that touch ChanA
AlbumUpdates ==
    [kind : {"message"}, chat : {AlbumChat}, from : {NoFrom}, gid : Gids]
    \cup [kind : {"my_chat_member"}, chat : {AlbumChat}, status : {"administrator", "left"}]
    \cup [kind : {"callback_query"}, from : {AdminIds[1]},
          data : {<<"toggle", "global">>, <<"toggle", "1">>}, hasMessage : {FALSE}]

(***************************************************************************)
(* State objects.                                                          *)
(***************************************************************************)
NoChannels == [k \in {} |-> Undefined]

DefaultState == [globalPaused |-> FALSE, channels |-> NoChannels]

Has(state, key) == key \in DOMAIN state.channels

\* delete state.channels[key]
WithoutNothing(channels, key) == channels

Without(channels, key) == [k \in DOMAIN channels \ {key} |-> channels[k]]

\* state.channels[key] = record
With(channels, key, record) ==
    [k \in DOMAIN channels \cup {key} |-> IF k = key THEN record ELSE channels[k]]

\* chat.title ?? chat.username ?? `${chat.id}`
DisplayName(chat) ==
    IF chat.title # Undefined THEN chat.title
    ELSE IF chat.username # Undefined THEN chat.username
    ELSE IdStr(chat.id)

Truthy(s) == s # Undefined /\ s # ""

(***************************************************************************)
(* Outbound calls (sendTelegram) and how a fault hits them.                *)
(***************************************************************************)
NoMarkup == [global |-> "none", rows |-> NoChannels]

Call(method, chatId, text, markup) ==
    [method |-> method, chat_id |-> chatId, text |-> text, reply_markup |-> markup,
     result |-> "ok"]

\* what call number i of the invocation meets
Outcome(fault, i) == IF fault.kind # "none" /\ fault.at = i THEN fault.kind ELSE "ok"

Rejected(calls, fault) == {i \in 1..Len(calls) : Outcome(fault, i) = "transport"}

Min(S) == CHOOSE x \in S : \A y \in S : x <= y

\* calls awaited one after the other: a rejected fetch throws, the rest is not issued;
\* an error reply is logged by sendTelegram and nothing else
RunSeq(calls, fault) ==
    LET bad == Rejected(calls, fault)
        n == IF bad = {} THEN Len(calls) ELSE Min(bad)
    IN  [out |-> [i \in 1..n |-> [calls[i] EXCEPT !.result = Outcome(fault, i)]],
         threw |-> bad # {}]

\* calls under Promise.all: all are issued, one rejection rejects the whole
RunAll(calls, fault) ==
    [out |-> [i \in 1..Len(calls) |-> [calls[i] EXCEPT !.result = Outcome(fault, i)]],
     threw |-> Rejected(calls, fault) # {}]

(***************************************************************************)
(* The functions of worker.js.                                             *)
(***************************************************************************)
AdminSet == {AdminIds[i] : i \in 1..Len(AdminIds)}

isAdminAnyone(from) == from # NoFrom

isAdmin(from) == from # NoFrom /\ from \in AdminSet

\* state.globalPaused || channel.paused
PausedChannelOnly(state, channel) == channel.paused

Paused(state, channel) == state.globalPaused \/ channel.paused

\* the album of `gid` was relayed on this channel less than ten minutes before t
IsDuplicateInclusive(channel, gid, t) ==
    channel.lastMediaGroupId = gid /\ t - channel.lastMediaGroupTs <= DedupWindow

IsDuplicate(channel, gid, t) ==
    channel.lastMediaGroupId = gid /\ t - channel.lastMediaGroupTs < DedupWindow

\* !flag
FlipOn(flag) == TRUE

Flip(flag) == ~flag

\* env.TARGET_CHAT_ID && Number(chat.id) === Number(env.TARGET_CHAT_ID)
IsTargetNever(chat) == FALSE

IsTarget(chat) == chat.id = TargetId

\* ensureChannel writing a fresh record over the one that is there
ensureChannelReset(state, chat) ==
    [state EXCEPT !.channels = With(state.channels, IdStr(chat.id),
         [title |-> DisplayName(chat), paused |-> FALSE,
          lastMediaGroupId |-> Undefined, lastMediaGroupTs |-> 0])]

\* ensureChannel taking over the title of the event whenever it differs
ensureChannelAnyTitle(state, chat) ==
    LET key == IdStr(chat.id) IN
    IF ~Has(state, key)
    THEN [state EXCEPT !.channels = With(state.channels, key,
              [title |-> DisplayName(chat), paused |-> FALSE,
               lastMediaGroupId |-> Undefined, lastMediaGroupTs |-> 0])]
    ELSE IF state.channels[key].title # chat.title
    THEN [state EXCEPT !.channels[key].title = chat.title]
    ELSE state

ensureChannel(state, chat) ==
    LET key == IdStr(chat.id) IN
    IF ~Has(state, key)
    THEN [state EXCEPT !.channels = With(state.channels, key,
              [title |-> DisplayName(chat), paused |-> FALSE,
               lastMediaGroupId |-> Undefined, lastMediaGroupTs |-> 0])]
    ELSE IF Truthy(chat.title) /\ state.channels[key].title # chat.title
    THEN [state EXCEPT !.channels[key].title = chat.title]
    ELSE state

buildKeyboard(state) ==
    [global |-> IF state.globalPaused THEN "resume-all" ELSE "pause-all",
     rows |-> [k \in DOMAIN state.channels |->
                 [text |-> <<IF state.channels[k].paused THEN "resume" ELSE "pause",
                             state.channels[k].title>>,
                  callback_data |-> <<"toggle", k>>]]]

renderStatus(state) ==
    <<<<"global", IF state.globalPaused THEN "paused" ELSE "running">>,
      <<"channels", IF DOMAIN state.channels = {} THEN "none" ELSE "listed">>>>

notifyAdmins(text, fault) ==
    RunAll([i \in 1..Len(AdminIds) |-> Call("sendMessage", AdminIds[i], text, NoMarkup)],
           fault)

Done(state) == [state |-> state, out |-> <<>>, threw |-> FALSE]

Sent(state, run) == [state |-> state, out |-> run.out, threw |-> run.threw]

\* handleMyChatMember notifying on every administrator/member event
handleMyChatMemberRenotify(event, state, fault) ==
    LET chat == event.chat
        key == IdStr(chat.id)
        status == event.status
        chatName == DisplayName(chat)
        alreadyExists == Has(state, key)
    IN  IF IsTarget(chat) THEN Done(state)
        ELSE IF status \in {"administrator", "member"}
        THEN Sent(ensureChannel(state, chat),
                  notifyAdmins(<<<<chatName, "added">>>>, fault))
        ELSE IF status \in {"left", "kicked"} /\ alreadyExists
        THEN Sent([state EXCEPT !.channels = Without(state.channels, key)],
                  notifyAdmins(<<<<chatName, "removed">>>>, fault))
        ELSE Done(state)

handleMyChatMember(event, state, fault) ==
    LET chat == event.chat
        key == IdStr(chat.id)
        status == event.status
        chatName == DisplayName(chat)
        alreadyExists == Has(state, key)
    IN  IF IsTarget(chat) THEN Done(state)
        ELSE IF status \in {"administrator", "member"}
        THEN IF ~alreadyExists
             THEN Sent(ensureChannel(state, chat),
                       notifyAdmins(<<<<chatName, "added">>>>, fault))
             ELSE Done(ensureChannel(state, chat))
        ELSE IF status \in {"left", "kicked"} /\ alreadyExists
        THEN Sent([state EXCEPT !.channels = Without(state.channels, key)],
                  notifyAdmins(<<<<chatName, "removed">>>>, fault))
        ELSE Done(state)

handleMessage(message, state, t, fault) ==
    LET chat == message.chat
        key == IdStr(chat.id)
        s1 == ensureChannel(state, chat)
        channel == s1.channels[key]
        gid == message.gid
        s2 == IF gid # Undefined
              THEN [s1 EXCEPT !.channels[key].lastMediaGroupId = gid,
                              !.channels[key].lastMediaGroupTs = t]
              ELSE s1
    IN  IF chat.type = "private" /\ isAdmin(message.from)
        THEN Sent(state, RunSeq(<<Call("sendMessage", chat.id, renderStatus(state),
                                       buildKeyboard(state))>>, fault))
        ELSE IF chat.type \notin {"channel", "supergroup", "group"} THEN Done(state)
        ELSE IF IsTarget(chat) THEN Done(state)
        ELSE IF Paused(s1, channel) THEN Done(s1)
        ELSE IF gid # Undefined /\ IsDuplicate(channel, gid, t) THEN Done(s1)
        ELSE Sent(s2, RunSeq(<<Call("sendMessage", TargetId,
                                    <<<<DisplayName(chat), "updated">>>>, NoMarkup)>>,
                             fault))

answerCallback(callback, word) ==
    Call("answerCallbackQuery", callback.from, <<<<word>>>>, NoMarkup)

\* the calls of updateManageMessage: none when the callback has no message reference
updateManageMessage(callback, state) ==
    IF callback.hasMessage
    THEN <<Call("editMessageReplyMarkup", callback.from, <<>>, buildKeyboard(state))>>
    ELSE <<>>

handleCallbackQuery(callback, state, fault) ==
    LET data == callback.data
        key == IdStr(Number(data[2]))
        flipG == [state EXCEPT !.globalPaused = Flip(state.globalPaused)]
        flipC == [state EXCEPT !.channels[key].paused = Flip(state.channels[key].paused)]
    IN  IF data = <<"toggle", "global">>
        THEN Sent(flipG,
                  RunSeq(<<answerCallback(callback,
                              IF flipG.globalPaused THEN "paused-all" ELSE "resumed-all")>>
                         \o updateManageMessage(callback, flipG), fault))
        ELSE IF Len(data) >= 2 /\ data[1] = "toggle"
        THEN IF ~Has(state, key)
             THEN Sent(state, RunSeq(<<answerCallback(callback, "not-found")>>, fault))
             ELSE Sent(flipC,
                       RunSeq(<<answerCallback(callback,
                                   IF flipC.channels[key].paused THEN "paused-one"
                                   ELSE "resumed-one")>>
                              \o updateManageMessage(callback, flipC), fault))
        ELSE Done(state)

\* JSON.parse of the text `null`
JsonNull == [null |-> TRUE]

\* JSON.parse of the text `{"globalPaused":false}` : an object without channels
NoRegistry == [globalPaused |-> FALSE]

\* state.channels is there to be indexed
HasChannels(state) == "channels" \in DOMAIN state

\* env.STATE_KV.get + JSON.parse: nothing stored, or a text that does not parse,
\* gives the default state; any text that parses gives the parsed value
loadState(raw) == IF raw.kind \in {"absent", "text"} THEN DefaultState ELSE raw.value

\* JSON.stringify, as put under STATE_KEY
saveState(state) == [kind |-> "json", value |-> state]

Thrown(state) == [state |-> state, out |-> <<>>, threw |-> TRUE]

\* the handlers on a loaded value without state.channels (null, or an object with
\* no channels): the first read of a property of null or of an entry of
\* state.channels throws a TypeError; the paths that return before do not
handleWithoutChannels(update, state, fault) ==
    LET flipG == [globalPaused |-> TRUE]        \* !undefined, !false
    IN  IF update.kind = "my_chat_member"
        THEN IF IsTarget(update.chat) THEN Done(state) ELSE Thrown(state)
        ELSE IF update.kind = "callback_query"
        THEN IF update.data = <<"toggle", "global">>
             THEN IF state = JsonNull THEN Thrown(state)
                  ELSE [state |-> flipG,
                        out |-> RunSeq(<<answerCallback(update, "paused-all")>>,
                                       fault).out,
                        threw |-> TRUE]          \* buildKeyboard: Object.entries
             ELSE IF Len(update.data) >= 2 /\ update.data[1] = "toggle"
             THEN Thrown(state)
             ELSE Done(state)
        ELSE IF update.kind = "message"
        THEN IF update.chat.type = "private" /\ isAdmin(update.from)
             THEN Thrown(state)                  \* renderStatus
             ELSE IF update.chat.type \notin {"channel", "supergroup", "group"}
             THEN Done(state)
             ELSE IF IsTarget(update.chat) THEN Done(state)
             ELSE Thrown(state)                  \* ensureChannel
        ELSE Done(state)

\* fetch() on the webhook path: the handler's result, whether saveState was reached
\* and the value the key holds afterwards
fetch(raw, update, t, fault) ==
    LET state == loadState(raw)
        denied == update.kind = "callback_query" /\ ~isAdmin(update.from)
        r == IF ~HasChannels(state) /\ ~denied
             THEN handleWithoutChannels(update, state, fault)
             ELSE IF update.kind = "my_chat_member"
             THEN handleMyChatMember(update, state, fault)
             ELSE IF update.kind = "callback_query"
             THEN IF denied
                  THEN Sent(state, RunSeq(<<answerCallback(update, "denied")>>, fault))
                  ELSE handleCallbackQuery(update, state, fault)
             ELSE IF update.kind = "message"
             THEN handleMessage(update, state, t, fault)
             ELSE Done(state)
        saved == ~r.threw /\ ~denied
    IN  [state |-> r.state, out |-> r.out, threw |-> r.threw, saved |-> saved,
         raw |-> IF saved THEN saveState(r.state) ELSE raw]

(***************************************************************************)
(* History kept for the properties (no part of the program).               *)
(***************************************************************************)
ChanKeys == {IdStr(ChanA), IdStr(ChanB)}

\* what the key can hold when the worker starts: nothing, a text that is not JSON,
\* the JSON value null, an object without channels, a state written earlier
StoredValues ==
    {[kind |-> "absent", value |-> DefaultState],
     [kind |-> "text", value |-> DefaultState],
     [kind |-> "json", value |-> JsonNull],
     [kind |-> "json", value |-> NoRegistry],
     [kind |-> "json", value |-> [globalPaused |-> TRUE, channels |-> NoChannels]]}
Procs == 1..NumProcs

NoRaw == [kind |-> "absent", value |-> DefaultState]

NoLast ==
    [update |-> [kind |-> "none"], t |-> 0, before |-> NoRaw,
     state |-> DefaultState, out |-> <<>>, threw |-> FALSE, saved |-> FALSE]

Observe(update, fault, r) ==
    [update |-> update, t |-> now, before |-> kv,
     state |-> r.state, out |-> r.out, threw |-> r.threw, saved |-> r.saved]

\* a post that reaches ensureChannel
IsPost(update) ==
    /\ update.kind = "message"
    /\ ~(update.chat.type = "private" /\ isAdmin(update.from))
    /\ update.chat.type \in {"channel", "supergroup", "group"}
    /\ ~IsTarget(update.chat)

IsMembership(update, statuses) ==
    /\ update.kind = "my_chat_member"
    /\ ~IsTarget(update.chat)
    /\ update.status \in statuses

\* calls to the target channel among the calls issued
ToTarget(out) == {i \in 1..Len(out) : out[i].method = "sendMessage" /\ out[i].chat_id = TargetId}

NextLife(update, r) ==
    [c \in ChanKeys |->
        IF ~r.saved \/ update.kind # "my_chat_member" \/ IdStr(update.chat.id) # c
        THEN life[c]
        ELSE IF update.status \in {"administrator", "member"} THEN "elevated"
        ELSE IF update.status \in {"left", "kicked"} THEN "demoted"
        ELSE life[c]]

NextPosted(update, r) ==
    [c \in ChanKeys |->
        IF ~r.saved THEN posted[c]
        ELSE IF IsMembership(update, {"left", "kicked"}) /\ IdStr(update.chat.id) = c
        THEN FALSE
        ELSE IF IsPost(update) /\ IdStr(update.chat.id) = c THEN TRUE
        ELSE posted[c]]

NoPost == [t |-> 0, issued |-> FALSE, sent |-> FALSE]
NoPair == [any |-> <<NoPost, NoPost>>, adj |-> <<NoPost, NoPost>>]

\* a post of the tracked album on ChanA, handled while neither flag is set
TrackedPost(update, raw) ==
    /\ IsPost(update)
    /\ update.chat.id = ChanA
    /\ update.gid = TrackedGid
    /\ ~loadState(raw).globalPaused
    /\ ~ensureChannel(loadState(raw), update.chat).channels[IdStr(ChanA)].paused

\* an event after which two posts of the tracked album no longer count as adjacent
Disturbs(update) ==
    \/ IsPost(update) /\ update.chat.id = ChanA /\ update.gid \notin {TrackedGid, Undefined}
    \/ IsMembership(update, {"left", "kicked"}) /\ update.chat.id = ChanA

NextPair(update, r) ==
    LET this == [t |-> now, issued |-> ToTarget(r.out) # {},
                 sent |-> \E i \in ToTarget(r.out) : r.out[i].result # "transport"]
    IN  IF TrackedPost(update, kv)
        THEN [any |-> <<pair.any[2], this>>, adj |-> <<pair.adj[2], this>>]
        ELSE IF Disturbs(update) THEN [pair EXCEPT !.adj = <<NoPost, NoPost>>]
        ELSE pair

(***************************************************************************)
(* Webhook invocations handled one at a time: fetch() from loadState to    *)
(* saveState in one step.                                                  *)
(***************************************************************************)
\* a fault hits a call that is made
Hits(fault, update) ==
    fault = NoFault \/ fault.at <= Len(fetch(kv, update, now, NoFault).out)

Webhook(update, fault) ==
    /\ Hits(fault, update)
    /\ kv' = fetch(kv, update, now, fault).raw
    /\ UNCHANGED <<now, ticks, inv, kick>>

\* ... observed
Observed(update, fault) ==
    /\ Webhook(update, fault)
    /\ last' = Observe(update, fault, fetch(kv, update, now, fault))
    /\ UNCHANGED <<life, posted, pair>>

OnMyChatMember == \E update \in MemberUpdates, fault \in Faults : Observed(update, fault)

OnCallbackQuery == \E update \in CallbackUpdates, fault \in Faults : Observed(update, fault)

OnMessage ==
    \E update \in PostUpdates \cup PrivateUpdates, fault \in Faults :
        Observed(update, fault)

OnOtherUpdate == \E update \in OtherUpdates : Observed(update, NoFault)

\* ... with the membership history recorded
Recorded(update, fault) ==
    /\ Webhook(update, fault)
    /\ life' = NextLife(update, fetch(kv, update, now, fault))
    /\ posted' = NextPosted(update, fetch(kv, update, now, fault))
    /\ UNCHANGED <<last, pair>>

HistMyChatMember == \E update \in MemberUpdates, fault \in Faults : Recorded(update, fault)

HistCallbackQuery == \E update \in CallbackUpdates, fault \in Faults : Recorded(update, fault)

HistMessage ==
    \E update \in PostUpdates \cup PrivateUpdates, fault \in Faults :
        Recorded(update, fault)

\* ... with the album history recorded
AlbumEvent ==
    \E update \in AlbumUpdates, fault \in Faults :
        /\ Webhook(update, fault)
        /\ pair' = NextPair(update, fetch(kv, update, now, fault))
        /\ UNCHANGED <<last, life, posted>>

\* time passes
Tick ==
    /\ ticks < MaxTicks
    /\ \E d \in {1, DedupWindow - 1} : now' = now + d
    /\ ticks' = ticks + 1
    /\ UNCHANGED <<kv, inv, kick, last, life, posted, pair>>

(***************************************************************************)
(* Concurrent webhook invocations: each reads the key when it starts       *)
(* (loadState), runs its handler on its own copy, and writes the key when  *)
(* it ends (saveState).                                                    *)
(***************************************************************************)
\* t is the arrival time of the event, before the value loadState read
Idle == [phase |-> "idle", update |-> [kind |-> "none"], t |-> 0, before |-> NoRaw,
         state |-> DefaultState, save |-> FALSE]

Begin(p, update, fault) ==
    LET r == fetch(kv, update, now, fault) IN
    /\ inv[p].phase = "idle"
    /\ Hits(fault, update)
    /\ inv' = [inv EXCEPT ![p] = [phase |-> "handled", update |-> update,
                                  t |-> now, before |-> kv,
                                  state |-> r.state, save |-> r.saved]]
    /\ UNCHANGED <<kv, now, ticks, kick, last, life, posted, pair>>

\* End writing its registry over the stored one channel by channel, keeping the
\* stored global flag
EndMerged(p) ==
    LET stored == loadState(kv)
        merged == [k \in DOMAIN stored.channels \cup DOMAIN inv[p].state.channels |->
                      IF k \in DOMAIN inv[p].state.channels
                      THEN inv[p].state.channels[k] ELSE stored.channels[k]]
    IN  /\ inv[p].phase = "handled"
        /\ kv' = IF inv[p].save
                 THEN saveState([globalPaused |-> stored.globalPaused,
                                 channels |-> merged])
                 ELSE kv
        /\ inv' = [inv EXCEPT ![p] = Idle]
        /\ UNCHANGED <<now, ticks, kick, last, life, posted, pair>>

End(p) ==
    /\ inv[p].phase = "handled"
    /\ kv' = IF inv[p].save THEN saveState(inv[p].state) ELSE kv
    /\ inv' = [inv EXCEPT ![p] = Idle]
    /\ UNCHANGED <<now, ticks, kick, last, life, posted, pair>>

BeginWebhook == \E p \in Procs, update \in ConcUpdates, fault \in ConcFaults :
                    Begin(p, update, fault)

EndWebhook == \E p \in Procs : End(p)

\* ... while time passes: posts of one album and the toggles of an admin
ClockUpdates ==
    [kind : {"message"}, chat : {AlbumChat}, from : {NoFrom}, gid : {TrackedGid}]
    \cup [kind : {"callback_query"}, from : {AdminIds[1]},
          data : {<<"toggle", "global">>}, hasMessage : {FALSE}]

BeginClocked == \E p \in Procs, update \in ClockUpdates : Begin(p, update, NoFault)

\* ten minutes pass
TickWindow ==
    /\ ticks < MaxTicks
    /\ now' = now + DedupWindow
    /\ ticks' = ticks + 1
    /\ UNCHANGED <<kv, inv, kick, last, life, posted, pair>>

(***************************************************************************)
(* POST /api/kick.  The request is answered at once (an error, or the      *)
(* empty registry) or issues one banChatMember call per channel; the calls *)
(* settle in any order; Promise.all resolves when all have resolved and    *)
(* rejects as soon as one rejects.                                         *)
(***************************************************************************)
KickApiKey == "secret"                      \* env.KICK_API_KEY
ApiKeys == {KickApiKey, "wrong", Undefined}
KickBodies ==
    {[json |-> FALSE, null |-> FALSE, user_id |-> 0],      \* not JSON
     [json |-> TRUE, null |-> TRUE, user_id |-> 0],        \* the JSON value null
     [json |-> TRUE, null |-> FALSE, user_id |-> 0],       \* {} : no user_id
     [json |-> TRUE, null |-> FALSE, user_id |-> Outsider]}
NoBody == [json |-> FALSE, null |-> FALSE, user_id |-> 0]
KickOutcomes == {"ok", "reply", "transport"}

\* the membership events that fill the registry a kick runs over
KickUpdates ==
    [kind : {"my_chat_member"}, chat : ChatsA \cup ChatsB,
     status : {"administrator", "left"}]

NoResponse == [status |-> 0]

\* apiKey and body are the request as received; loaded tells whether loadState
\* was called
KickIdle ==
    [phase |-> "idle", apiKey |-> Undefined, body |-> NoBody, loaded |-> FALSE,
     userId |-> 0, titles |-> NoChannels, settled |-> NoChannels,
     response |-> NoResponse]

jsonError(message, status) == [status |-> status, ok |-> FALSE, error |-> message]

Answered(response) == [KickIdle EXCEPT !.phase = "done", !.response = response]

\* an exception leaves handleKickRequest: the request ends with the platform's
\* error response
KickThrown == [KickIdle EXCEPT !.phase = "failed", !.response = [status |-> 500]]

\* handleKickRequest up to the calls it issues: the answer given at once, or the
\* calls issued over the registry as loaded
KickStart(raw, apiKey, body) ==
    LET state == loadState(raw)
        channelIds == DOMAIN state.channels
    IN  IF apiKey # KickApiKey THEN Answered(jsonError("Unauthorized", 401))
        ELSE IF ~body.json THEN Answered(jsonError("Invalid JSON body", 400))
        ELSE IF body.null THEN KickThrown       \* body.user_id of null: TypeError
        ELSE IF body.user_id = 0 THEN Answered(jsonError("Missing user_id", 400))
        ELSE IF channelIds = {}
        THEN [Answered([status |-> 200, success |-> TRUE,
                        message |-> "No channels to kick from",
                        results |-> NoChannels]) EXCEPT !.loaded = TRUE]
        ELSE [KickIdle EXCEPT !.phase = "pending", !.loaded = TRUE,
                              !.userId = body.user_id,
                              !.titles = [c \in channelIds |-> state.channels[c].title],
                              !.settled = [c \in channelIds |-> "pending"]]

handleKickRequestSaving(raw, apiKey, body) ==
    [kick |-> KickStart(raw, apiKey, body),
     raw |-> IF apiKey = KickApiKey THEN saveState(loadState(raw)) ELSE raw]

\* ... with the value the key holds afterwards: the request never writes it
handleKickRequest(raw, apiKey, body) ==
    [kick |-> KickStart(raw, apiKey, body), raw |-> raw]

\* Promise.all over the calls: every one has resolved
AllResolved(settled) == \A c \in DOMAIN settled : settled[c] \in {"ok", "reply"}

\* the entry of one channel, from the reply to its banChatMember call
KickResult(chatId, title, outcome) ==
    [chat_id |-> chatId, title |-> title, success |-> outcome = "ok",
     error |-> IF outcome = "ok" THEN Undefined ELSE "description"]

\* the summary built from the entries
KickSummary(userId, titles, settled) ==
    LET results == [c \in DOMAIN settled |-> KickResult(c, titles[c], settled[c])]
        total == Cardinality(DOMAIN results)
        successCount == Cardinality({c \in DOMAIN results : results[c].success})
    IN  [status |-> 200, success |-> TRUE,
         message |-> <<userId, successCount, total>>,
         summary |-> [total |-> total, success |-> successCount,
                      failed |-> total - successCount],
         results |-> results]

KickRequest ==
    \E apiKey \in ApiKeys, body \in KickBodies :
        /\ kick.phase # "pending"
        /\ kick' = [handleKickRequest(kv, apiKey, body).kick
                        EXCEPT !.apiKey = apiKey, !.body = body]
        /\ kv' = handleKickRequest(kv, apiKey, body).raw
        /\ UNCHANGED <<now, ticks, inv, last, life, posted, pair>>

\* one banChatMember call settles; a rejected one rejects the Promise.all, and the
\* request ends with the exception while the other calls are still out
KickSettle ==
    \E c \in DOMAIN kick.settled, outcome \in KickOutcomes :
        /\ kick.phase \in {"pending", "failed"}
        /\ kick.settled[c] = "pending"
        /\ kick' = IF outcome = "transport" /\ kick.phase = "pending"
                   THEN [kick EXCEPT !.settled[c] = outcome, !.phase = "failed",
                                     !.response = [status |-> 500]]
                   ELSE [kick EXCEPT !.settled[c] = outcome]
        /\ UNCHANGED <<kv, now, ticks, inv, last, life, posted, pair>>

KickRespond ==
    /\ kick.phase = "pending"
    /\ AllResolved(kick.settled)
    /\ kick' = [kick EXCEPT !.phase = "done",
                            !.response = KickSummary(kick.userId, kick.titles,
                                                     kick.settled)]
    /\ UNCHANGED <<kv, now, ticks, inv, last, life, posted, pair>>

\* a webhook invocation between the steps of a kick
KickWebhook ==
    \E update \in KickUpdates :
        /\ Webhook(update, NoFault)
        /\ UNCHANGED <<last, life, posted, pair>>

Init ==
    /\ kv = NoRaw
    /\ now = StartTime
    /\ ticks = 0
    /\ inv = [p \in Procs |-> Idle]
    /\ kick = KickIdle
    /\ last = NoLast
    /\ life = [c \in ChanKeys |-> "none"]
    /\ posted = [c \in ChanKeys |-> FALSE]
    /\ pair = NoPair

Next == OnMyChatMember \/ OnCallbackQuery \/ OnMessage \/ OnOtherUpdate

Spec == Init /\ [][Next]_vars

\* the worker started over whatever the key holds
InitStored ==
    /\ kv \in StoredValues
    /\ now = StartTime
    /\ ticks = 0
    /\ inv = [p \in Procs |-> Idle]
    /\ kick = KickIdle
    /\ last = NoLast
    /\ life = [c \in ChanKeys |-> "none"]
    /\ posted = [c \in ChanKeys |-> FALSE]
    /\ pair = NoPair

SpecStored == InitStored /\ [][Next]_vars

NextHist == HistMyChatMember \/ HistCallbackQuery \/ HistMessage

SpecHist == Init /\ [][NextHist]_vars

NextConc == BeginWebhook \/ EndWebhook

SpecConc == Init /\ [][NextConc]_vars

NextKick == KickRequest \/ KickSettle \/ KickRespond \/ KickWebhook

SpecKick == Init /\ [][NextKick]_vars

NextClock == BeginClocked \/ EndWebhook \/ TickWindow

SpecClock == Init /\ [][NextClock]_vars

NextAlbum == AlbumEvent \/ Tick

SpecAlbum == Init /\ [][NextAlbum]_vars

(***************************************************************************)
(* Properties.                                                             *)
(***************************************************************************)
Registry == loadState(kv).channels

TargetKey == IdStr(TargetId)

\* C1: the target channel is never a key of the stored registry nor of the registry
\* an invocation holds in memory, whatever the events and their interleaving
C1_TargetNeverRegistered ==
    /\ TargetKey \notin DOMAIN Registry
    /\ \A p \in Procs : TargetKey \notin DOMAIN inv[p].state.channels

C1_Witness ==
    /\ inv[1].phase = "handled" /\ inv[1].save
    /\ inv[1].update.kind = "my_chat_member" /\ inv[1].update.chat.id = TargetId
    /\ inv[1].update.status = "administrator"
    /\ inv[2].phase = "handled" /\ inv[2].save
    /\ inv[2].update.kind = "message" /\ inv[2].update.chat.id = TargetId
    /\ IdStr(ChanA) \in DOMAIN Registry /\ loadState(kv).globalPaused

Loaded == loadState(last.before)

LastKey == IdStr(last.update.chat.id)

Elapsed(p) == p[2].t - p[1].t

IsDenial(call) ==
    call.method = "answerCallbackQuery" /\ call.text = <<<<"denied">>>>

\* C4: a callback from an actor outside the admin set leaves the in-memory state as
\* loaded and the stored value as it was, whatever its action tag, and issues the
\* denial acknowledgment and nothing else
C4_UnauthorizedNoChange ==
    (last.update.kind = "callback_query" /\ last.update.from \notin AdminSet) =>
        /\ last.state = Loaded
        /\ kv = last.before
        /\ Len(last.out) = 1 /\ IsDenial(last.out[1])

C4_Witness ==
    /\ last.update.kind = "callback_query" /\ last.update.from = Outsider
    /\ last.update.data = <<"toggle", "1">>
    /\ IdStr(ChanA) \in DOMAIN Registry
    /\ Len(last.out) = 1 /\ IsDenial(last.out[1])

\* C5: an invocation that loads the global flag set issues no call to the target
\* channel, and a post on a channel whose own flag is set issues none either
C5_MutedNoNotification ==
    /\ Loaded.globalPaused => ToTarget(last.out) = {}
    /\ (IsPost(last.update) /\ Has(Loaded, LastKey) /\ Loaded.channels[LastKey].paused)
           => ToTarget(last.out) = {}

C5_Witness ==
    /\ IsPost(last.update) /\ Has(Loaded, LastKey)
    /\ Loaded.globalPaused /\ ~Loaded.channels[LastKey].paused
    /\ last.out = <<>>

\* C6: an ungrouped post on a non-target channel with both flags clear issues
\* exactly one call, a sendMessage to the target channel, whose text carries the
\* title stored in the channel's record
C6_OneNotificationWithStoredTitle ==
    (/\ IsPost(last.update) /\ last.update.gid = Undefined
     /\ ~Loaded.globalPaused
     /\ Has(Loaded, LastKey) => ~Loaded.channels[LastKey].paused) =>
        /\ Len(last.out) = 1
        /\ ToTarget(last.out) = {1}
        /\ last.out[1].text = <<<<last.state.channels[LastKey].title, "updated">>>>

IsToggle(l) ==
    /\ l.update.kind = "callback_query" /\ l.update.from \in AdminSet
    /\ l.saved
    /\ \/ l.update.data = <<"toggle", "global">>
       \/ \E c \in DOMAIN loadState(l.before).channels : l.update.data = <<"toggle", c>>

\* C7: two applications in succession of the same toggle by an admin (the global
\* one, or that of one existing channel) leave the whole state as it was before them
C7_ToggleTwice ==
    [][(/\ IsToggle(last) /\ IsToggle(last')
        /\ last'.update.data = last.update.data
        /\ last' # last /\ last'.before = kv)
           => loadState(kv') = Loaded]_vars

C7_Witness ==
    /\ IsToggle(last) /\ last.update.data = <<"toggle", "1">>
    /\ Loaded.channels[IdStr(ChanA)].paused
    /\ ~Registry[IdStr(ChanA)].paused
    /\ IdStr(ChanB) \in DOMAIN Registry

Directives == DOMAIN kick.settled

Settled == \A c \in Directives : kick.settled[c] # "pending"

\* C8: once the directives of a kick over a non-empty registry have all settled,
\* the response is the summary with total = N and success + failed = N, in which a
\* channel whose directive failed (error reply or failed transport call) has
\* success = false with the error detail and every other channel its own outcome;
\* and no summary is produced before all have settled
C8_KickAggregatesAllOutcomes ==
    /\ (kick.phase # "pending" /\ Directives # {} /\ Settled) =>
          /\ kick.response.status = 200
          /\ kick.response.summary.total = Cardinality(Directives)
          /\ kick.response.summary.success + kick.response.summary.failed
                 = Cardinality(Directives)
          /\ \A c \in Directives :
                /\ kick.response.results[c].success = (kick.settled[c] = "ok")
                /\ kick.settled[c] # "ok" => kick.response.results[c].error # Undefined
    /\ (kick.response.status = 200 /\ Directives # {}) => Settled

\* C9: a kick over the empty registry issues no directive and returns a success
\* summary with total = 0, successCount = 0, failCount = 0 and an empty result list
C9_EmptyRegistrySummary ==
    (kick.phase = "done" /\ kick.response.status = 200 /\ DOMAIN kick.titles = {}) =>
        /\ Directives = {}
        /\ kick.response.success
        /\ kick.response.results = NoChannels
        /\ "summary" \in DOMAIN kick.response
        /\ kick.response.summary = [total |-> 0, success |-> 0, failed |-> 0]

\* C10: no step of a kick request, whatever its outcome, changes the stored value
C10_KickReadOnly == [][kick' # kick => kv' = kv]_vars

C10_Witness ==
    /\ kick.phase = "done" /\ kick.response.status = 200
    /\ Directives = ChanKeys
    /\ kick.settled[IdStr(ChanA)] = "reply" /\ kick.settled[IdStr(ChanB)] = "ok"
    /\ IdStr(ChanA) \notin DOMAIN Registry

\* the request in `kick` was answered with the error `message` under `status`
KickError(status, message) ==
    /\ kick.phase = "done"
    /\ kick.response = jsonError(message, status)

\* C11: a kick request whose credential is absent or wrong ends with the
\* authorization error, and one with the valid credential and a body without a
\* user identifier ends with the validation error; either way the stored state was
\* not read and no removal directive was issued
C11_KickErrorsBeforeState ==
    kick.phase # "idle" =>
        /\ kick.apiKey # KickApiKey =>
              KickError(401, "Unauthorized") /\ ~kick.loaded /\ Directives = {}
        /\ (kick.apiKey = KickApiKey /\ kick.body.json /\ kick.body.user_id = 0) =>
              KickError(400, "Missing user_id") /\ ~kick.loaded /\ Directives = {}

\* the stored value does not parse to an object with a channels map
Unusable(raw) == raw.kind \in {"absent", "text"} \/ ~HasChannels(raw.value)

\* C12: an invocation that finds under the key nothing, a text that is not JSON, or
\* a JSON value that is no object with a channels map, handles its event exactly as
\* it would from the default state {globalPaused false, no channels}: same calls,
\* same final state, no exception, same value written
C12_UnusableStoredIsDefault ==
    (last.update.kind # "none" /\ Unusable(last.before)) =>
        \E fault \in Faults :
            LET r == fetch(NoRaw, last.update, last.t, fault) IN
            /\ last.state = r.state
            /\ last.out = r.out
            /\ last.threw = r.threw
            /\ last.saved = r.saved
            /\ last.saved => kv = r.raw

\* the calls are one sendMessage per admin, each carrying `text`
NotifiesAdmins(out, text) ==
    /\ Len(out) = Len(AdminIds)
    /\ \A i \in 1..Len(AdminIds) :
          /\ out[i].method = "sendMessage"
          /\ out[i].chat_id = AdminIds[i]
          /\ out[i].text = text

\* the records of the channels other than `key`, and the global flag, are as loaded
OthersKept(key) ==
    /\ last.state.globalPaused = Loaded.globalPaused
    /\ DOMAIN last.state.channels \ {key} = DOMAIN Loaded.channels \ {key}
    /\ \A k \in DOMAIN Loaded.channels \ {key} :
          last.state.channels[k] = Loaded.channels[k]

\* C13: a membership event on a non-target channel, whatever was handled before:
\* administrator/member without a record creates the record with paused = false
\* and sends every admin "added"; administrator/member with a record changes at
\* most the title and sends nothing; left/kicked with a record deletes it and sends
\* every admin "removed"; left/kicked without a record changes and sends nothing
C13_MembershipTable ==
    LET chat == last.update.chat
        status == last.update.status
        name == DisplayName(chat)
        had == Has(Loaded, LastKey)
    IN  (last.update.kind = "my_chat_member" /\ ~IsTarget(chat)) =>
          /\ (status \in {"administrator", "member"} /\ ~had) =>
                /\ Has(last.state, LastKey)
                /\ ~last.state.channels[LastKey].paused
                /\ NotifiesAdmins(last.out, <<<<name, "added">>>>)
                /\ OthersKept(LastKey)
          /\ (status \in {"administrator", "member"} /\ had) =>
                /\ Has(last.state, LastKey)
                /\ last.state.channels[LastKey]
                       = [Loaded.channels[LastKey] EXCEPT
                             !.title = last.state.channels[LastKey].title]
                /\ last.out = <<>>
                /\ OthersKept(LastKey)
          /\ (status \in {"left", "kicked"} /\ had) =>
                /\ ~Has(last.state, LastKey)
                /\ NotifiesAdmins(last.out, <<<<name, "removed">>>>)
                /\ OthersKept(LastKey)
          /\ (status \in {"left", "kicked"} /\ ~had) =>
                /\ last.state = Loaded
                /\ last.out = <<>>

C13_Witness ==
    /\ last.update.kind = "my_chat_member" /\ last.update.chat.id = ChanA
    /\ last.update.status = "member"
    /\ Has(Loaded, LastKey) /\ Loaded.channels[LastKey].paused
    /\ Loaded.channels[LastKey].title = "u" /\ last.state.channels[LastKey].title = "A"
    /\ last.out = <<>> /\ last.saved
    /\ IdStr(ChanB) \in DOMAIN Registry

\* C14: a post with a group id that the dedup gate lets through sets the
\* channel's lastMediaGroupId to that id and its lastMediaGroupTs to the arrival
\* time, also when the global flag or the channel's flag is set and the
\* notification is dropped
C14_BookkeepingWhenMuted ==
    LET gid == last.update.gid
        before == ensureChannel(Loaded, last.update.chat).channels[LastKey]
    IN  (/\ IsPost(last.update) /\ gid # Undefined
         /\ ~IsDuplicate(before, gid, last.t)) =>
            /\ last.state.channels[LastKey].lastMediaGroupId = gid
            /\ last.state.channels[LastKey].lastMediaGroupTs = last.t

\* the calls that re-render the button layout
Renders(out) == {i \in 1..Len(out) : out[i].method = "editMessageReplyMarkup"}

\* an admin's callback whose action tag is a toggle, handled without an exception
IsToggleAction(l) ==
    /\ l.update.kind = "callback_query" /\ l.update.from \in AdminSet
    /\ Len(l.update.data) >= 2 /\ l.update.data[1] = "toggle"
    /\ ~l.threw

\* C15: every toggle action of an admin that carries a message reference, for the
\* global flag, an existing channel or a channel without a record, is followed in
\* the same invocation by one editMessageReplyMarkup whose layout is that of the
\* state after the toggle; without a message reference the state is still saved
\* and no re-render is issued
C15_RerenderAfterEveryToggle ==
    IsToggleAction(last) =>
        /\ last.update.hasMessage =>
              /\ Renders(last.out) # {}
              /\ \A i \in Renders(last.out) :
                    last.out[i].reply_markup = buildKeyboard(last.state)
        /\ ~last.update.hasMessage =>
              /\ Renders(last.out) = {}
              /\ last.saved /\ kv = saveState(last.state)

\* C16: every webhook invocation, whatever the event (no handler for it, a callback
\* of a non-admin, a dropped post, a membership event that changes nothing), writes
\* the state it holds under the key when its handler has returned
C16_SavedEveryInvocation ==
    (last.update.kind # "none" /\ ~last.threw) =>
        last.saved /\ kv = saveState(last.state)

\* the record of LastKey was created or deleted by the invocation
Transition == Has(Loaded, LastKey) # Has(last.state, LastKey)

Failed(out) == {i \in 1..Len(out) : out[i].result # "ok"}

\* C17: when a membership event creates or deletes a record and the notification to
\* one admin fails (error reply or failed transport call), the other admins are
\* still notified, and the invocation runs to its end: the state with the
\* transition is written under the key
C17_NotifyFailureKeepsTransition ==
    (/\ last.update.kind = "my_chat_member" /\ ~IsTarget(last.update.chat)
     /\ Transition /\ Failed(last.out) # {}) =>
        /\ Len(last.out) = Len(AdminIds)
        /\ ~last.threw
        /\ last.saved /\ kv = saveState(last.state)
        /\ Has(loadState(kv), LastKey) = Has(last.state, LastKey)

\* lastMediaGroupTs of channel c in the stored value `raw`
StoredTs(raw, c) == loadState(raw).channels[c].lastMediaGroupTs

\* the channels that have a record in both stored values
Kept(raw1, raw2) == DOMAIN loadState(raw1).channels \cap DOMAIN loadState(raw2).channels

\* C18 as stated: whatever the interleaving of the invocations, no write under the
\* key makes the lastMediaGroupTs of a channel whose record stays smaller
C18_TimestampNeverDecreases ==
    [][\A c \in Kept(kv, kv') : StoredTs(kv', c) >= StoredTs(kv, c)]_vars

\* C18 amended: a write by an invocation that loaded the value the key still holds
\* (none wrote between its load and its write) leaves the lastMediaGroupTs of every
\* channel whose record stays as it was or sets it to the arrival time of the event
\* the invocation handled, which is not smaller
C18_TimestampForwardWhenFresh ==
    [][\A p \in Procs :
          (inv[p].phase = "handled" /\ inv'[p].phase = "idle" /\ inv[p].before = kv) =>
              \A c \in Kept(kv, kv') :
                  /\ StoredTs(kv', c) >= StoredTs(kv, c)
                  /\ StoredTs(kv', c) # StoredTs(kv, c) => StoredTs(kv', c) = inv[p].t
      ]_vars

\* a later post of the album, handled from the stored value, is about to move the
\* timestamp forward
C18_Witness ==
    /\ inv[1].phase = "handled" /\ inv[1].save /\ inv[1].before = kv
    /\ inv[1].update.kind = "message"
    /\ IdStr(ChanA) \in DOMAIN Registry
    /\ StoredTs(kv, IdStr(ChanA)) = StartTime
    /\ inv[1].state.channels[IdStr(ChanA)].lastMediaGroupTs = StartTime + DedupWindow

\* the value is a state object: a boolean flag and a registry of records
WellFormed(state) ==
    /\ DOMAIN state = {"globalPaused", "channels"}
    /\ state.globalPaused \in BOOLEAN
    /\ \A c \in DOMAIN state.channels :
          /\ DOMAIN state.channels[c]
                 = {"title", "paused", "lastMediaGroupId", "lastMediaGroupTs"}
          /\ state.channels[c].paused \in BOOLEAN

\* C19: under every interleaving of invocations, the stored value is at every
\* moment a well-formed state object, and every change of it puts there the whole
\* final in-memory state of the one invocation that ends in that step (last write
\* wins), never a mixture of the states of two invocations
C19_LastWriteWins ==
    /\ [](kv = NoRaw \/ (kv.kind = "json" /\ WellFormed(kv.value)))
    /\ [][kv' # kv =>
             \E p \in Procs :
                 /\ inv[p].phase = "handled" /\ inv[p].save /\ inv'[p] = Idle
                 /\ \A q \in Procs \ {p} : inv'[q] = inv[q]
                 /\ kv' = saveState(inv[p].state)]_vars

\* an invocation that loaded an older state is about to write it over the state
\* another invocation has written since: that update will be lost
C19_Witness ==
    /\ inv[1].phase = "handled" /\ inv[1].save
    /\ inv[1].before # kv
    /\ IdStr(ChanA) \in DOMAIN Registry /\ loadState(kv).globalPaused
    /\ inv[1].update.kind = "my_chat_member"
    /\ inv[1].state = [globalPaused |-> FALSE, channels |-> NoChannels]

\* the chats ensureChannel is called with
EnsuredChats == ChatsA \cup ChatsB

\* C20: ensureChannel applied to any reachable state and any chat: a record that is
\* there keeps its paused flag and its dedup fields, and its title changes only to
\* a non-empty title of the chat that differs from it; a record that is not there
\* is created with paused = false, lastMediaGroupId = null, lastMediaGroupTs = 0;
\* a second application changes nothing more; no other record and not the global
\* flag is touched.  A membership event of a channel that has a record does
\* exactly this to the state.
C20_EnsureChannelFrame ==
    /\ \A chat \in EnsuredChats :
          LET key == IdStr(chat.id)
              state == loadState(kv)
              once == ensureChannel(state, chat)
          IN  /\ Has(once, key)
              /\ Has(state, key) =>
                    /\ once.channels[key].paused = state.channels[key].paused
                    /\ once.channels[key].lastMediaGroupId
                           = state.channels[key].lastMediaGroupId
                    /\ once.channels[key].lastMediaGroupTs
                           = state.channels[key].lastMediaGroupTs
                    /\ once.channels[key].title =
                           IF chat.title \notin {Undefined, "", state.channels[key].title}
                           THEN chat.title ELSE state.channels[key].title
              /\ ~Has(state, key) =>
                    /\ once.channels[key].paused = FALSE
                    /\ once.channels[key].lastMediaGroupId = Undefined
                    /\ once.channels[key].lastMediaGroupTs = 0
              /\ ensureChannel(once, chat) = once
              /\ once.globalPaused = state.globalPaused
              /\ DOMAIN once.channels = DOMAIN state.channels \cup {key}
              /\ \A k \in DOMAIN state.channels \ {key} :
                    once.channels[k] = state.channels[k]
    /\ (IsMembership(last.update, {"administrator", "member"}) /\ Has(Loaded, LastKey))
           => last.state = ensureChannel(Loaded, last.update.chat)

\* a membership event re-confirmed a muted channel with a dedup cursor under a new
\* title, next to the record of another channel
C20_Witness ==
    /\ IsMembership(last.update, {"administrator", "member"})
    /\ last.update.chat.id = ChanA /\ last.saved
    /\ Has(Loaded, LastKey)
    /\ Loaded.channels[LastKey].title = "u" /\ Registry[LastKey].title = "A"
    /\ Registry[LastKey].paused /\ Registry[LastKey].lastMediaGroupId = TrackedGid
    /\ IdStr(ChanB) \in DOMAIN Registry

====
